---- MODULE Spec2Model ----
(***************************************************************************)
(* Recurring ledger and credit-card billing engine of the financial        *)
(* assistant (src/functions_database.py): the cycle calculator, the        *)
(* invoice (statement) aggregator, the recurring expansion of expenses and *)
(* incomes, and ledger edits, over the tables "transactions" and           *)
(* "invoices" of the store.                                                *)
(*                                                                         *)
(* Python values are represented as follows.  A datetime.date is a record  *)
(* [year, month, day]; the ISO string date.isoformat() returns is the      *)
(* tuple <<year, month, day>> (its lexicographic order is the order of the *)
(* zero padded strings); None in a date column is the empty tuple.  An     *)
(* optional argument is <<>> (None) or <<v>>.  Amounts are integers.  A    *)
(* raised ValueError is the value ValueError.                              *)
(*                                                                         *)
(* A row of a table is a record of the columns the engine reads or         *)
(* writes; a column left out of an insert is null (None, NoCard).  The     *)
(* columns installments and type of a transaction are not modelled.  A     *)
(* card row has the keys get_credit_card_details' readers use, close_day   *)
(* and due_day.  created_at, the store's default, is the number of the     *)
(* command that inserted the row: the rows of one batch share it.          *)
(*                                                                         *)
(* A call of the store either returns or raises (db = "ok" or "raise");    *)
(* a write that raises has written nothing.                                *)
(***************************************************************************)
EXTENDS Integers, Sequences, FiniteSets, TLC

VARIABLES
    today,         \* date.today() of the requests
    credit_cards,  \* table credit_cards: card id -> row
    transactions,  \* table transactions (the ledger), in insertion order
    invoices,      \* table invoices (the statements), in insertion order
    clock,         \* number of commands issued; created_at of the rows
    result,        \* the last command: its arguments, snapshot and return
    posted,        \* the calls of create_or_update_invoice so far
    store_raised,  \* whether some command so far was given a raising store
    cycle,         \* the last application of the cycle calculator alone
    requests       \* the requests in flight inside create_or_update_invoice

vars == <<today, credit_cards, transactions, invoices, clock, result, posted,
          store_raised, cycle, requests>>

----------------------------------------------------------------------------
(* Bounds of the model *)

\* calendar years the dates of the model are drawn from (one leap, one not)
Years == {2024, 2025}

\* most rows the ledger holds
MaxTx == 6

\* most commands in one run
MaxOps == 3

\* largest explicit month count of a recurring declaration
MaxMonths == 3

\* most postings in one run of the aggregator alone
MaxPosts == 2

----------------------------------------------------------------------------
(* Python values *)

None == <<>>

NoCard == "none"

ValueError == [year |-> 0, month |-> 0, day |-> 0]

\* the amount kept with its sign
abs_signed(x) == x

abs(x) == IF x < 0 THEN -x ELSE x

min(a, b) == IF a <= b THEN a ELSE b

isleap(y) == (y % 4 = 0) /\ ((y % 100 # 0) \/ (y % 400 = 0))

\* calendar.monthrange(year, month)[1]: the number of days of the month
monthrange(y, m) ==
    IF m = 2 THEN (IF isleap(y) THEN 29 ELSE 28)
    ELSE IF m \in {4, 6, 9, 11} THEN 30 ELSE 31

\* datetime.date(year, month, day): the date, or ValueError when there is
\* no such day in the calendar
date(y, m, d) ==
    IF m \in 1..12 /\ d >= 1 /\ d <= monthrange(y, m)
    THEN [year |-> y, month |-> m, day |-> d]
    ELSE ValueError

\* date.isoformat()
isoformat(dt) == <<dt.year, dt.month, dt.day>>

\* the fallback clamping to day 30 instead of the last day of the month
date_or_day_30(y, m, d) ==
    IF date(y, m, d) # ValueError
    THEN date(y, m, d)
    ELSE date(y, m, min(d, 30))

\* try: date(y, m, d)  except ValueError: date(y, m, min(d, last_day))
date_or_last_day(y, m, d) ==
    IF date(y, m, d) # ValueError
    THEN date(y, m, d)
    ELSE date(y, m, min(d, monthrange(y, m)))

----------------------------------------------------------------------------
(* Date/cycle calculator *)

\* the cycle test with the purchase on the closing day sent to the next cycle
in_current_cycle_strict(purchase_day, close_day) == purchase_day < close_day

\* the cycle test with the comparison inverted
in_current_cycle_inverted(purchase_day, close_day) == purchase_day >= close_day

\* the branch of the cycle test: TRUE when the purchase enters the invoice
\* that closes in the month of the purchase
in_current_cycle(purchase_day, close_day) == purchase_day <= close_day

calculate_credit_card_due_date(purchase_date, close_day, due_day) ==
    LET purchase_year  == purchase_date.year
        purchase_month == purchase_date.month
        purchase_day   == purchase_date.day
        same       == in_current_cycle(purchase_day, close_day)
        next_month == purchase_month + 1
        close_month == IF same THEN purchase_month
                       ELSE IF next_month > 12 THEN 1 ELSE next_month
        close_year  == IF same THEN purchase_year
                       ELSE IF next_month > 12 THEN purchase_year + 1
                       ELSE purchase_year
        due_month == close_month
        due_year  == close_year
    IN  [due_date   |-> date_or_last_day(due_year, due_month, due_day),
         close_date |-> date_or_last_day(close_year, close_month, close_day)]

----------------------------------------------------------------------------
(* Invoice (statement) aggregator *)

\* get_credit_card_details: <<row>> of the user's card, or None when there
\* is no such card or the store raised (the function catches and returns
\* None)
get_credit_card_details(cards, user_id, credit_card_id, db) ==
    IF /\ db = "ok"
       /\ credit_card_id \in DOMAIN cards
       /\ cards[credit_card_id].user_id = user_id
    THEN <<cards[credit_card_id]>>
    ELSE None

\* the rows of the invoices table a select on (user, card, month, year)
\* returns, as indices
existing_invoice(inv, user_id, credit_card_id, bill_month, bill_year) ==
    {i \in 1..Len(inv) : /\ inv[i].user_id = user_id
                         /\ inv[i].credit_card_id = credit_card_id
                         /\ inv[i].month = bill_month
                         /\ inv[i].year = bill_year}

first(S) == CHOOSE i \in S : \A j \in S : i <= j

\* line 119: date(bill_year, bill_month, card_details["due_day"])
invoice_due_date(bill_year, bill_month, due_day) ==
    date(bill_year, bill_month, due_day)

\* create_or_update_invoice on the table inv: the table afterwards and the
\* "success" of the returned dict.  db = "raise": a call of the store raises;
\* the except clause returns failure and nothing was written.
create_or_update_invoice(inv, cards, user_id, credit_card_id, bill_month, bill_year, amount, db) ==
    LET existing == existing_invoice(inv, user_id, credit_card_id,
                                     bill_month, bill_year)
        card_details == get_credit_card_details(cards, user_id,
                                                credit_card_id, "ok")
        due_date == invoice_due_date(bill_year, bill_month,
                                     card_details[1].due_day)
        invoice_data == [user_id |-> user_id,
                         credit_card_id |-> credit_card_id,
                         total_amount |-> amount,
                         month |-> bill_month,
                         year |-> bill_year,
                         due_date |-> isoformat(due_date),
                         close_day |-> card_details[1].close_day,
                         is_paid |-> FALSE,
                         paid_date |-> None]
    IN  IF db = "raise" THEN [invoices |-> inv, success |-> FALSE]
        ELSE IF existing # {}
        THEN [invoices |-> [inv EXCEPT ![first(existing)].total_amount =
                                          @ + amount],
              success |-> TRUE]
        ELSE IF card_details = None
        THEN [invoices |-> inv, success |-> FALSE]
        ELSE IF due_date = ValueError
        THEN [invoices |-> inv, success |-> FALSE]
        ELSE [invoices |-> Append(inv, invoice_data), success |-> TRUE]

\* the record of one call of create_or_update_invoice
Posting(user_id, credit_card_id, bill_month, bill_year, amount, db) ==
    [user_id |-> user_id, credit_card_id |-> credit_card_id,
     month |-> bill_month, year |-> bill_year, amount |-> amount, db |-> db]

----------------------------------------------------------------------------
(* Shared parts of the state *)

Days == 1..31

AllDates == {dt \in [year : Years, month : 1..12, day : Days] :
                dt.day <= monthrange(dt.year, dt.month)}

NoCycle == [purchase_date |-> ValueError, close_day |-> 0, due_day |-> 0,
            due_date |-> ValueError, close_date |-> ValueError]

NoResult == [op |-> "none", success |-> TRUE]

\* the card table: the one card of user u1
CardTable(close_day, due_day) ==
    [c \in {"c1"} |-> [user_id |-> "u1", close_day |-> close_day,
                       due_day |-> due_day]]

----------------------------------------------------------------------------
(* The cycle calculator alone: every card configuration, every purchase    *)
(* date of Years                                                           *)

InitCycle ==
    /\ today = [year |-> 2024, month |-> 1, day |-> 1]
    /\ \E cd \in Days, dd \in Days : credit_cards = CardTable(cd, dd)
    /\ transactions = <<>>
    /\ invoices = <<>>
    /\ clock = 0
    /\ result = NoResult
    /\ posted = <<>>
    /\ store_raised = FALSE
    /\ cycle = NoCycle
    /\ requests = <<>>

CalculateDueDate(purchase_date) ==
    /\ cycle = NoCycle
    /\ LET card == credit_cards["c1"]
           r == calculate_credit_card_due_date(purchase_date, card.close_day,
                                               card.due_day)
       IN cycle' = [purchase_date |-> purchase_date,
                    close_day |-> card.close_day, due_day |-> card.due_day,
                    due_date |-> r.due_date, close_date |-> r.close_date]
    /\ UNCHANGED <<today, credit_cards, transactions, invoices, clock, result,
                   posted, store_raised, requests>>

NextCycle == \E d \in AllDates : CalculateDueDate(d)

SpecCycle == InitCycle /\ [][NextCycle]_vars

----------------------------------------------------------------------------
(* The aggregator alone: every due day of the card, every month of Years,  *)
(* up to MaxPosts postings                                                 *)

Amounts == {50, 75}

DbOutcomes == {"ok", "raise"}

InitInvoice ==
    /\ today = [year |-> 2024, month |-> 1, day |-> 1]
    /\ \E dd \in Days : credit_cards = CardTable(1, dd)
    /\ transactions = <<>>
    /\ invoices = <<>>
    /\ clock = 0
    /\ result = NoResult
    /\ posted = <<>>
    /\ store_raised = FALSE
    /\ cycle = NoCycle
    /\ requests = <<>>

PostToInvoice(user_id, credit_card_id, bill_month, bill_year, amount, db) ==
    /\ clock < MaxPosts
    /\ LET r == create_or_update_invoice(invoices, credit_cards, user_id,
                                         credit_card_id, bill_month,
                                         bill_year, amount, db)
       IN  /\ invoices' = r.invoices
           /\ result' = [op |-> "post", success |-> r.success,
                         user_id |-> user_id,
                         credit_card_id |-> credit_card_id,
                         month |-> bill_month, year |-> bill_year,
                         amount |-> amount, db |-> db,
                         invoices_before |-> invoices]
    /\ posted' = Append(posted, Posting(user_id, credit_card_id, bill_month,
                                        bill_year, amount, db))
    /\ clock' = clock + 1
    /\ store_raised' = (store_raised \/ db = "raise")
    /\ UNCHANGED <<today, credit_cards, transactions, cycle, requests>>

NextInvoice ==
    \E m \in 1..12, y \in Years, a \in Amounts, db \in DbOutcomes :
        PostToInvoice("u1", "c1", m, y, a, db)

SpecInvoice == InitInvoice /\ [][NextInvoice]_vars

----------------------------------------------------------------------------
(* Ledger writes: save_expense_transaction, save_income_transaction and    *)
(* edit_transaction.  A description is the record [text, suffix]: the text *)
(* the caller gave and the " - mm/yyyy" marker appended to it (None or     *)
(* <<month, year>>).                                                       *)

\* line 311: recurring_months if recurring_months is not None else 6
months_to_create(recurring_months) ==
    IF recurring_months # None THEN recurring_months[1] ELSE 6

\* target month without the year adjustment
target_of_no_carry(start, month_offset) ==
    [year |-> start.year, month |-> ((start.month + month_offset - 1) % 12) + 1]

\* lines 318-324: today's month plus the offset, the year adjusted while the
\* month is above 12
target_of(start, month_offset) ==
    LET raw == start.month + month_offset
    IN  [year |-> start.year + ((raw - 1) \div 12),
         month |-> ((raw - 1) % 12) + 1]

\* the due date of an expanded entry with day 31 of a short month carried
\* to the first day of the following month
entry_due_date_overflow(start, month_offset, due_day) ==
    LET t == target_of(start, month_offset)
    IN  IF date(t.year, t.month, due_day) # ValueError
        THEN date(t.year, t.month, due_day)
        ELSE date(t.year + (t.month \div 12), (t.month % 12) + 1, 1)

\* lines 326-333: the due date of the entry month_offset months from today
entry_due_date(start, month_offset, due_day) ==
    LET t == target_of(start, month_offset)
    IN  date_or_last_day(t.year, t.month, due_day)

\* due_date_obj.strftime("%m/%Y")
strftime_month_year(dt) == <<dt.month, dt.year>>

\* lines 314-341 (expense) and 703-727 (income): the rows of the batch.
\* The expense loop sets due_date and the marked description, the income
\* loop sets due_date and paid_date.
transactions_to_insert(transaction_data, start, due_day, months, kind) ==
    [k \in 1..months |->
        LET due_date_obj == entry_due_date(start, k - 1, due_day)
        IN  IF kind = "expense"
            THEN [transaction_data EXCEPT
                    !.due_date = isoformat(due_date_obj),
                    !.description =
                        [text |-> @.text,
                         suffix |-> strftime_month_year(due_date_obj)]]
            ELSE [transaction_data EXCEPT
                    !.due_date = isoformat(due_date_obj),
                    !.paid_date = None]]

\* a batch sent to the store row by row, stopping at the row that fails
insert_rows_one_by_one(table, rows, db) ==
    IF db = "raise"
    THEN [table |-> table \o SubSeq(rows, 1, Len(rows) - 1),
          data |-> <<>>, raised |-> TRUE]
    ELSE [table |-> table \o rows, data |-> rows, raised |-> FALSE]

\* supabase.table("transactions").insert(rows).execute(): one request, one
\* INSERT statement; it stores every row and returns them, or raises and
\* stores none
insert_rows(table, rows, db) ==
    IF db = "raise"
    THEN [table |-> table, data |-> <<>>, raised |-> TRUE]
    ELSE [table |-> table \o rows, data |-> rows, raised |-> FALSE]

\* the methods paid on the spot, the debit card left out
PaidNowMethods_without_debit == {"dinheiro", "pix"}

\* line 251: payment_method in ["dinheiro", "pix", "cartao_debito"]
PaidNowMethods == {"dinheiro", "pix", "cartao_debito"}

save_expense_transaction(user_id, amount, description, category_id, payment_method, credit_card_id, recurrence, due_day, recurring_months, dbCard, dbInv, dbIns) ==
    LET recurring == recurrence /\ due_day # None
        first_due == date_or_last_day(today.year, today.month, due_day[1])
        paid_now == payment_method \in PaidNowMethods
        card_details == get_credit_card_details(credit_cards, user_id,
                                                credit_card_id, dbCard)
        on_card == /\ ~recurring /\ ~paid_now
                   /\ payment_method = "cartao_credito"
                   /\ credit_card_id # NoCard
                   /\ card_details # None
        cyc == calculate_credit_card_due_date(today,
                   card_details[1].close_day, card_details[1].due_day)
        bill_result == create_or_update_invoice(invoices, credit_cards,
                           user_id, credit_card_id, cyc.due_date.month,
                           cyc.due_date.year, amount, dbInv)
        raised_early == \/ recurring /\ first_due = ValueError
                        \/ on_card /\ ValueError \in {cyc.due_date,
                                                       cyc.close_date}
        posts == on_card /\ ~raised_early
        due_date == IF recurring THEN isoformat(first_due)
                    ELSE IF paid_now THEN isoformat(today)
                    ELSE IF on_card THEN isoformat(cyc.due_date)
                    ELSE None
        paid_date == IF ~recurring /\ paid_now THEN isoformat(today)
                     ELSE None
        transaction_data ==
            [user_id |-> user_id,
             amount |-> abs(amount),
             description |-> [text |-> description, suffix |-> None],
             category_id |-> category_id,
             payment_method |-> payment_method,
             transaction_type |-> "expense",
             recurrence |-> recurrence,
             credit_card_id |-> credit_card_id,
             due_date |-> due_date,
             paid_date |-> paid_date,
             created_at |-> clock + 1]
        months == months_to_create(recurring_months)
        rows == IF recurring
                THEN transactions_to_insert(transaction_data, today,
                                            due_day[1], months, "expense")
                ELSE <<transaction_data>>
        resp == insert_rows(transactions, rows, dbIns)
        success == IF raised_early \/ resp.raised THEN FALSE
                   ELSE IF recurring THEN resp.data # <<>>
                   ELSE TRUE
    IN  /\ clock < MaxOps
        /\ Len(transactions) + Len(rows) <= MaxTx
        /\ invoices' = IF posts THEN bill_result.invoices ELSE invoices
        /\ posted' = IF posts
                     THEN Append(posted,
                              Posting(user_id, credit_card_id,
                                      cyc.due_date.month, cyc.due_date.year,
                                      amount, dbInv))
                     ELSE posted
        /\ transactions' = IF raised_early THEN transactions ELSE resp.table
        /\ clock' = clock + 1
        /\ result' = [op |-> "save_expense", success |-> success,
                      user_id |-> user_id, amount |-> amount,
                      payment_method |-> payment_method,
                      credit_card_id |-> credit_card_id,
                      recurrence |-> recurrence, due_day |-> due_day,
                      recurring_months |-> recurring_months,
                      posts |-> posts,
                      bill_success |-> posts /\ bill_result.success,
                      transactions_before |-> transactions,
                      invoices_before |-> invoices]
        /\ store_raised' = (store_raised \/ "raise" \in {dbCard, dbInv, dbIns})
        /\ UNCHANGED <<today, credit_cards, cycle, requests>>

save_income_transaction(user_id, amount, description, category_id, payment_method, recurrence, due_day, recurring_months, dbIns) ==
    LET recurring == recurrence /\ due_day # None
        first_due == date_or_last_day(today.year, today.month, due_day[1])
        raised_early == recurring /\ first_due = ValueError
        due_date == IF recurring THEN isoformat(first_due)
                    ELSE isoformat(today)
        paid_date == IF recurring THEN None ELSE isoformat(today)
        transaction_data ==
            [user_id |-> user_id,
             amount |-> abs(amount),
             description |-> [text |-> description, suffix |-> None],
             category_id |-> category_id,
             payment_method |-> payment_method,
             transaction_type |-> "income",
             recurrence |-> recurrence,
             credit_card_id |-> NoCard,
             due_date |-> due_date,
             paid_date |-> paid_date,
             created_at |-> clock + 1]
        months == months_to_create(recurring_months)
        rows == IF recurring
                THEN transactions_to_insert(transaction_data, today,
                                            due_day[1], months, "income")
                ELSE <<transaction_data>>
        resp == insert_rows(transactions, rows, dbIns)
        success == ~(raised_early \/ resp.raised)
    IN  /\ clock < MaxOps
        /\ Len(transactions) + Len(rows) <= MaxTx
        /\ transactions' = IF raised_early THEN transactions ELSE resp.table
        /\ clock' = clock + 1
        /\ result' = [op |-> "save_income", success |-> success,
                      user_id |-> user_id, amount |-> amount,
                      payment_method |-> payment_method,
                      credit_card_id |-> NoCard,
                      recurrence |-> recurrence, due_day |-> due_day,
                      recurring_months |-> recurring_months,
                      posts |-> FALSE, bill_success |-> FALSE,
                      transactions_before |-> transactions,
                      invoices_before |-> invoices]
        /\ store_raised' = (store_raised \/ dbIns = "raise")
        /\ UNCHANGED <<today, credit_cards, invoices, posted, cycle, requests>>

\* table categories: category id -> row
categories ==
    [c \in {"cat1", "cat2", "cat3"} |->
        [user_id |-> IF c = "cat3" THEN "u2" ELSE "u1",
         name |-> IF c = "cat2" THEN "Lazer" ELSE "Casa"]]

\* .ilike("description", "%keyword%") for the keywords of the model, which
\* are whole description texts and occur in no marker
ilike_description(description, keyword) == description.text = keyword

\* select id from categories where user_id = ... and name ilike %name%
category_ids(user_id, name) ==
    {c \in DOMAIN categories : /\ categories[c].user_id = user_id
                               /\ categories[c].name = name}

\* the latest matching rows of the ledger, whoever owns them
latest_matching_of_anyone(table, user_id, description_keyword) ==
    LET matching == {i \in 1..Len(table) :
                        ilike_description(table[i].description,
                                          description_keyword)}
    IN  {i \in matching :
            \A j \in matching : table[j].created_at <= table[i].created_at}

\* lines 1216-1222: the rows the select ordered by created_at desc, limit 1
\* can return: the matching rows of the user with the latest created_at
latest_matching(table, user_id, description_keyword) ==
    LET matching == {i \in 1..Len(table) :
                        /\ table[i].user_id = user_id
                        /\ ilike_description(table[i].description,
                                             description_keyword)}
    IN  {i \in matching :
            \A j \in matching : table[j].created_at <= table[i].created_at}

\* lines 1226-1244: the row after update_data is applied to it
apply_update(row, new_payment_method, category_id, new_amount, new_description) ==
    LET r1 == IF new_payment_method # None
              THEN [row EXCEPT !.payment_method = new_payment_method[1]]
              ELSE row
        r2 == IF new_amount # None /\ new_amount[1] # 0
              THEN [r1 EXCEPT !.amount = abs(new_amount[1])]
              ELSE r1
        r3 == IF new_description # None
              THEN [r2 EXCEPT !.description =
                                 [text |-> new_description[1],
                                  suffix |-> None]]
              ELSE r2
    IN  IF category_id # None
        THEN [r3 EXCEPT !.category_id = category_id[1]]
        ELSE r3

edit_transaction(user_id, description_keyword, new_payment_method, new_category_name, new_amount, new_description, db) ==
    LET found == latest_matching(transactions, user_id, description_keyword)
        cats == IF new_category_name = None THEN {}
                ELSE category_ids(user_id, new_category_name[1])
        category_missing == new_category_name # None /\ cats = {}
        category_id == IF new_category_name = None THEN None
                       ELSE <<CHOOSE c \in cats : TRUE>>
        no_update == /\ new_payment_method = None
                     /\ (new_amount = None \/ new_amount[1] = 0)
                     /\ new_description = None
                     /\ new_category_name = None
        fails == \/ db = "raise" \/ found = {}
                 \/ category_missing \/ no_update
    IN  /\ clock < MaxOps
        /\ clock' = clock + 1
        /\ IF fails
           THEN /\ transactions' = transactions
                /\ result' = [op |-> "edit", success |-> FALSE,
                              user_id |-> user_id, target |-> 0,
                              transactions_before |-> transactions,
                              invoices_before |-> invoices]
           ELSE \E i \in found :
                /\ transactions' =
                      [transactions EXCEPT ![i] =
                          apply_update(@, new_payment_method, category_id,
                                       new_amount, new_description)]
                /\ result' = [op |-> "edit", success |-> TRUE,
                              user_id |-> user_id, target |-> i,
                              new |-> [payment_method |-> new_payment_method,
                                       category_name |-> new_category_name,
                                       amount |-> new_amount,
                                       description |-> new_description],
                              transactions_before |-> transactions,
                              invoices_before |-> invoices]
        /\ store_raised' = (store_raised \/ db = "raise")
        /\ UNCHANGED <<today, credit_cards, invoices, posted, cycle, requests>>

----------------------------------------------------------------------------
(* The ledger: expenses, incomes, recurring declarations and edits of one  *)
(* user, up to MaxOps commands and MaxTx rows                              *)

Init ==
    /\ today = [year |-> 2025, month |-> 1, day |-> 28]
    /\ credit_cards \in {CardTable(1, 10), CardTable(25, 31)}
    /\ transactions = <<>>
    /\ invoices = <<>>
    /\ clock = 0
    /\ result = NoResult
    /\ posted = <<>>
    /\ store_raised = FALSE
    /\ cycle = NoCycle
    /\ requests = <<>>

\* the outcomes of the three store calls of one expense: at most one raises
StoreOutcomes ==
    {<<"ok", "ok", "ok">>, <<"raise", "ok", "ok">>, <<"ok", "raise", "ok">>,
     <<"ok", "ok", "raise">>}

RegisterExpense ==
    \E amount \in Amounts, card \in {NoCard, "c1"},
       method \in {"pix", "cartao_credito"}, db \in StoreOutcomes :
        save_expense_transaction("u1", amount, "luz", "cat1", method, card,
                                 FALSE, None, None, db[1], db[2], db[3])

RegisterRecurringExpense ==
    \E months \in {None, <<2>>}, dbIns \in DbOutcomes,
       method \in {<<"pix", NoCard>>, <<"cartao_credito", "c1">>} :
        save_expense_transaction("u1", 50, "luz", "cat1", method[1],
                                 method[2], TRUE, <<31>>, months,
                                 "ok", "ok", dbIns)

RegisterIncome ==
    \E recurrence \in BOOLEAN, dbIns \in DbOutcomes :
        save_income_transaction("u1", 50, "salario", "cat1", "pix",
                                recurrence,
                                IF recurrence THEN <<31>> ELSE None,
                                IF recurrence THEN <<2>> ELSE None, dbIns)

\* the field changes of the edit commands: <<payment method, category
\* name, amount>>
EditCommands ==
    {<<None, None, None>>,
     <<<<"pix">>, None, None>>,
     <<<<"cartao_credito">>, None, None>>,
     <<None, <<"Lazer">>, None>>,
     <<None, <<"Viagem">>, None>>,
     <<None, None, <<75>>>>,
     <<<<"pix">>, <<"Lazer">>, <<75>>>>}

EditTransaction ==
    \E keyword \in {"luz", "salario"}, new \in EditCommands,
       db \in DbOutcomes :
        edit_transaction("u1", keyword, new[1], new[2], new[3], None, db)

Next ==
    \/ RegisterExpense
    \/ RegisterRecurringExpense
    \/ RegisterIncome
    \/ EditTransaction

Spec == Init /\ [][Next]_vars

----------------------------------------------------------------------------
(* Recurring declarations alone: one declaration on an empty ledger, for   *)
(* every due day, every start month of Years and every month count up to   *)
(* MaxMonths or defaulted                                                  *)

StartDates == {dt \in AllDates : dt.day \in {1, 28}}

MonthCounts == {None} \cup {<<k>> : k \in 0..MaxMonths}

InitRecur ==
    /\ today \in StartDates
    /\ credit_cards = CardTable(1, 10)
    /\ transactions = <<>>
    /\ invoices = <<>>
    /\ clock = 0
    /\ result = NoResult
    /\ posted = <<>>
    /\ store_raised = FALSE
    /\ cycle = NoCycle
    /\ requests = <<>>

DeclareRecurringExpense ==
    /\ clock = 0
    /\ \E due_day \in Days, months \in MonthCounts, db \in DbOutcomes,
          method \in {<<"pix", NoCard>>, <<"cartao_credito", "c1">>} :
           save_expense_transaction("u1", 50, "luz", "cat1", method[1],
                                    method[2], TRUE, <<due_day>>, months,
                                    "ok", "ok", db)

DeclareRecurringIncome ==
    /\ clock = 0
    /\ \E due_day \in Days, months \in MonthCounts, db \in DbOutcomes :
           save_income_transaction("u1", 50, "salario", "cat1", "pix", TRUE,
                                   <<due_day>>, months, db)

NextRecur == DeclareRecurringExpense \/ DeclareRecurringIncome

SpecRecur == InitRecur /\ [][NextRecur]_vars

----------------------------------------------------------------------------
(* Settlement and edits of single entries.  The id of an entry is its      *)
(* position in transactions: the model deletes no row.                     *)

\* update({"paid_date": paid_date}) on the rows the filters select
update_paid_date(table, selected, paid_date) ==
    [i \in 1..Len(table) |->
        IF i \in selected THEN [table[i] EXCEPT !.paid_date = paid_date]
        ELSE table[i]]

\* the rows .eq("id", transaction_id).eq("user_id", user_id) selects, with
\* .eq("transaction_type", ...) where the function adds it
rows_with_id(table, transaction_id, user_id, kinds) ==
    {i \in 1..Len(table) : /\ i = transaction_id
                           /\ table[i].user_id = user_id
                           /\ table[i].transaction_type \in kinds}

\* the body the three settlement functions share: the date defaults to
\* today, the rows selected are updated, the store may raise
settle(op, transaction_id, user_id, paid_date, kinds, db) ==
    LET date_used == IF paid_date = None THEN isoformat(today) ELSE paid_date
        selected == rows_with_id(transactions, transaction_id, user_id, kinds)
        updates == db = "ok" /\ selected # {}
    IN  /\ clock < MaxOps
        /\ clock' = clock + 1
        /\ transactions' = IF updates
                           THEN update_paid_date(transactions, selected,
                                                 date_used)
                           ELSE transactions
        /\ result' = [op |-> op, success |-> updates, user_id |-> user_id,
                      target |-> transaction_id, paid_date |-> paid_date,
                      transactions_before |-> transactions,
                      invoices_before |-> invoices]
        /\ store_raised' = (store_raised \/ db = "raise")
        /\ UNCHANGED <<today, credit_cards, invoices, posted, cycle, requests>>

mark_transaction_as_paid(transaction_id, user_id, paid_date, db) ==
    settle("mark_transaction_as_paid", transaction_id, user_id, paid_date,
           {"income", "expense"}, db)

mark_income_as_received(transaction_id, user_id, received_date, db) ==
    settle("mark_income_as_received", transaction_id, user_id, received_date,
           {"income"}, db)

mark_expense_as_paid(transaction_id, user_id, paid_date, db) ==
    settle("mark_expense_as_paid", transaction_id, user_id, paid_date,
           {"expense"}, db)

\* TransactionUpdate: the request bodies the model accepts.  A body is the
\* record of the fields the client sent (dict(exclude_unset=True)); every
\* field is optional and may be sent as null, an amount must be above 0.
TransactionUpdate(body) ==
    /\ DOMAIN body \subseteq {"amount", "paid_date"}
    /\ ("amount" \in DOMAIN body => body.amount > 0)

\* db_service.update_transaction(user_id, transaction_id, changes): the
\* store applies the partial field changes to the entry of that id and user
update_transaction(table, user_id, transaction_id, changes) ==
    [i \in 1..Len(table) |->
        IF i = transaction_id /\ table[i].user_id = user_id
        THEN [f \in DOMAIN table[i] |->
                 IF f \in DOMAIN changes THEN changes[f] ELSE table[i][f]]
        ELSE table[i]]

\* PUT /transactions/{transaction_id}
put_transaction(user_id, transaction_id, body, db) ==
    LET found == rows_with_id(transactions, transaction_id, user_id,
                              {"income", "expense"})
        updates == TransactionUpdate(body) /\ db = "ok" /\ found # {}
    IN  /\ clock < MaxOps
        /\ clock' = clock + 1
        /\ transactions' = IF updates
                           THEN update_transaction(transactions, user_id,
                                                   transaction_id, body)
                           ELSE transactions
        /\ result' = [op |-> "put_transaction", success |-> updates,
                      user_id |-> user_id, target |-> transaction_id,
                      body |-> body,
                      transactions_before |-> transactions,
                      invoices_before |-> invoices]
        /\ store_raised' = (store_raised \/ db = "raise")
        /\ UNCHANGED <<today, credit_cards, invoices, posted, cycle, requests>>

\* the ledger of one user under creation with signed amounts, settlement,
\* chat edits and REST updates, up to MaxOps commands
InitSettle ==
    /\ today = [year |-> 2025, month |-> 1, day |-> 28]
    /\ credit_cards = CardTable(1, 10)
    /\ transactions = <<>>
    /\ invoices = <<>>
    /\ clock = 0
    /\ result = NoResult
    /\ posted = <<>>
    /\ store_raised = FALSE
    /\ cycle = NoCycle
    /\ requests = <<>>

SignedAmounts == {-50, 50}

SettleDates == {None, <<2025, 1, 10>>}

CreateExpense ==
    \E amount \in SignedAmounts, recurrence \in BOOLEAN :
        save_expense_transaction("u1", amount, "luz", "cat1", "pix", NoCard,
                                 recurrence,
                                 IF recurrence THEN <<10>> ELSE None,
                                 IF recurrence THEN <<1>> ELSE None,
                                 "ok", "ok", "ok")

CreateIncome ==
    \E amount \in SignedAmounts, recurrence \in BOOLEAN :
        save_income_transaction("u1", amount, "salario", "cat1", "pix",
                                recurrence,
                                IF recurrence THEN <<10>> ELSE None,
                                IF recurrence THEN <<1>> ELSE None, "ok")

MarkTransactionAsPaid ==
    \E id \in 1..(Len(transactions) + 1), paid_date \in SettleDates,
       db \in DbOutcomes :
        mark_transaction_as_paid(id, "u1", paid_date, db)

MarkIncomeAsReceived ==
    \E id \in 1..(Len(transactions) + 1), received_date \in SettleDates,
       db \in DbOutcomes :
        mark_income_as_received(id, "u1", received_date, db)

MarkExpenseAsPaid ==
    \E id \in 1..(Len(transactions) + 1), paid_date \in SettleDates,
       db \in DbOutcomes :
        mark_expense_as_paid(id, "u1", paid_date, db)

EditAmount ==
    \E keyword \in {"luz", "salario"}, new_amount \in {-75, 0, 75} :
        edit_transaction("u1", keyword, None, None, <<new_amount>>, None,
                         "ok")

UpdateBodies ==
    {[amount |-> 75], [amount |-> -75], [paid_date |-> None],
     [paid_date |-> <<2025, 1, 20>>]}

PutTransaction ==
    \E id \in 1..(Len(transactions) + 1), body \in UpdateBodies,
       db \in DbOutcomes :
        put_transaction("u1", id, body, db)

NextSettle ==
    \/ CreateExpense
    \/ CreateIncome
    \/ MarkTransactionAsPaid
    \/ MarkIncomeAsReceived
    \/ MarkExpenseAsPaid
    \/ EditAmount
    \/ PutTransaction

SpecSettle == InitSettle /\ [][NextSettle]_vars

----------------------------------------------------------------------------
(* Creation of credit cards: the REST endpoint and the onboarding form.    *)
(* A stored card keeps its closing day in the field close_day that         *)
(* get_credit_card_details hands to the calculator.                        *)

\* the ids the store gives to the cards, in the order of their creation
CardIdSeq == <<"c1", "c2">>

\* CreditCardCreate: closing_day and due_day with ge=1, le=31
CreditCardCreate(card_data) ==
    /\ card_data.closing_day >= 1 /\ card_data.closing_day <= 31
    /\ card_data.due_day >= 1 /\ card_data.due_day <= 31

\* CreditCardData of the onboarding form: closing_day: int, due_day: int
CreditCardData(card) == card.closing_day \in Int /\ card.due_day \in Int

\* supabase.table("credit_cards").insert(card_data): the card stored under
\* the next id
insert_credit_card(cards, user_id, card) ==
    (CardIdSeq[Cardinality(DOMAIN cards) + 1] :>
        [user_id |-> user_id, close_day |-> card.closing_day,
         due_day |-> card.due_day]) @@ cards

\* the loop of create_user_credit_cards: one insert per card of the list
RECURSIVE create_user_credit_cards(_, _, _)
create_user_credit_cards(cards, user_id, list) ==
    IF list = <<>> THEN cards
    ELSE create_user_credit_cards(
             insert_credit_card(cards, user_id, Head(list)), user_id,
             Tail(list))

\* POST /onboarding/complete for a user not yet registered; fails_at is the
\* insert of the loop at which the store raises (0: none)
complete_onboarding(user_id, cards_given, fails_at) ==
    LET valid == \A k \in 1..Len(cards_given) : CreditCardData(cards_given[k])
        stored == IF fails_at = 0 THEN cards_given
                  ELSE SubSeq(cards_given, 1, fails_at - 1)
    IN  /\ \A c \in DOMAIN credit_cards : credit_cards[c].user_id # user_id
        /\ \A i \in 1..Len(transactions) : transactions[i].user_id # user_id
        /\ Cardinality(DOMAIN credit_cards) + Len(cards_given)
              <= Len(CardIdSeq)
        /\ credit_cards' = IF valid
                           THEN create_user_credit_cards(credit_cards,
                                                         user_id, stored)
                           ELSE credit_cards
        /\ result' = [op |-> "complete_onboarding",
                      success |-> valid /\ fails_at = 0,
                      user_id |-> user_id, cards_given |-> cards_given,
                      cards_before |-> credit_cards]
        /\ store_raised' = (store_raised \/ fails_at # 0)
        /\ UNCHANGED <<today, transactions, invoices, clock, posted, cycle,
                       requests>>

\* POST /credit-cards
create_credit_card(user_id, card_data, db) ==
    LET creates == CreditCardCreate(card_data) /\ db = "ok"
    IN  /\ Cardinality(DOMAIN credit_cards) < Len(CardIdSeq)
        /\ credit_cards' = IF creates
                           THEN insert_credit_card(credit_cards, user_id,
                                                   card_data)
                           ELSE credit_cards
        /\ result' = [op |-> "create_credit_card", success |-> creates,
                      user_id |-> user_id, cards_given |-> <<card_data>>,
                      cards_before |-> credit_cards]
        /\ store_raised' = (store_raised \/ db = "raise")
        /\ UNCHANGED <<today, transactions, invoices, clock, posted, cycle,
                       requests>>

\* the days a client can send: below the range, inside it, above it
DayInputs == {0, 10, 32}

CardInputs == [closing_day : DayInputs, due_day : DayInputs]

InitCards ==
    /\ today = [year |-> 2025, month |-> 1, day |-> 28]
    /\ credit_cards = <<>>
    /\ transactions = <<>>
    /\ invoices = <<>>
    /\ clock = 0
    /\ result = NoResult
    /\ posted = <<>>
    /\ store_raised = FALSE
    /\ cycle = NoCycle
    /\ requests = <<>>

Onboard ==
    \E n \in 1..Len(CardIdSeq) :
        \E cards_given \in [1..n -> CardInputs], fails_at \in 0..n :
            complete_onboarding("u1", cards_given, fails_at)

PostCreditCard ==
    \E card_data \in CardInputs, db \in DbOutcomes :
        create_credit_card("u1", card_data, db)

PurchaseOnCard ==
    \E card \in DOMAIN credit_cards :
        save_expense_transaction("u1", 50, "luz", "cat1", "cartao_credito",
                                 card, FALSE, None, None, "ok", "ok", "ok")

NextCards == Onboard \/ PostCreditCard \/ PurchaseOnCard

SpecCards == InitCards /\ [][NextCards]_vars

----------------------------------------------------------------------------
(* Read views: balance, category analysis, pending commitments.  A view    *)
(* is computed from the ledger and today's date and returned to the        *)
(* caller; the model keeps the returned value in result.view.              *)

\* the order of two ISO dates as strings: "YYYY-MM-DD" compares as the date
iso_key(s) == s[1] * 10000 + s[2] * 100 + s[3]

str_le(a, b) == iso_key(a) <= iso_key(b)

\* sum of the amounts of the rows S of a table
RECURSIVE sum_amounts(_, _)
sum_amounts(table, S) ==
    IF S = {} THEN 0
    ELSE LET i == CHOOSE i \in S : TRUE
         IN  table[i].amount + sum_amounts(table, S \ {i})

\* the date filter that keeps every settled row, whatever the range
paid_any_time(row, start_date, end_date) == row.paid_date # None

\* .not_.is_("paid_date", "null").gte("paid_date", start_date)
\* .lte("paid_date", end_date)
paid_in_range(row, start_date, end_date) ==
    /\ row.paid_date # None
    /\ str_le(start_date, row.paid_date)
    /\ str_le(row.paid_date, end_date)

\* lines 926-929 and 1003-1006: when either bound is missing both are
\* replaced, by the first day of the current month and by today
default_period(start_date, end_date) ==
    IF start_date = None \/ end_date = None
    THEN [start |-> isoformat([today EXCEPT !.day = 1]),
          end |-> isoformat(today)]
    ELSE [start |-> start_date, end |-> end_date]

calculate_user_balance(table, user_id, start_date, end_date, db) ==
    LET period == default_period(start_date, end_date)
        selected == {i \in 1..Len(table) :
                        /\ table[i].user_id = user_id
                        /\ paid_in_range(table[i], period.start, period.end)}
        incomes == {i \in selected : table[i].transaction_type = "income"}
        expenses == {i \in selected : table[i].transaction_type = "expense"}
        total_income == sum_amounts(table, incomes)
        total_expenses == sum_amounts(table, expenses)
    IN  IF db = "raise"
        THEN [total_income |-> 0, total_expenses |-> 0, balance |-> 0,
              income_count |-> 0, expense_count |-> 0, period |-> period]
        ELSE [total_income |-> total_income,
              total_expenses |-> total_expenses,
              balance |-> total_income - total_expenses,
              income_count |-> Cardinality(incomes),
              expense_count |-> Cardinality(expenses),
              period |-> period]

\* dynamic_query, query_type "balance": incomes and expenses of the user
\* with due_date in the range given, settled or pending as is_paid asks
\* (None: both), summed and netted
execute_supabase_native_query(table, user_id, date_range, is_paid, db) ==
    LET in_range(row) ==
            /\ (date_range.start_date # None =>
                   row.due_date # None
                   /\ str_le(date_range.start_date, row.due_date))
            /\ (date_range.end_date # None =>
                   row.due_date # None
                   /\ str_le(row.due_date, date_range.end_date))
        status(row) == \/ is_paid = None
                       \/ is_paid = <<row.paid_date # None>>
        selected == {i \in 1..Len(table) : /\ table[i].user_id = user_id
                                           /\ in_range(table[i])
                                           /\ status(table[i])}
        incomes == {i \in selected : table[i].transaction_type = "income"}
        expenses == {i \in selected : table[i].transaction_type = "expense"}
    IN  IF db = "raise" THEN <<>>
        ELSE <<[total_income |-> sum_amounts(table, incomes),
                total_expenses |-> sum_amounts(table, expenses),
                balance |-> sum_amounts(table, incomes)
                              - sum_amounts(table, expenses),
                income_count |-> Cardinality(incomes),
                expense_count |-> Cardinality(expenses)]>>

\* categories(name) of the join, "Outros" when the row has no category
category_name(row) ==
    IF row.category_id \in DOMAIN categories
    THEN categories[row.category_id].name
    ELSE "Outros"

\* round(num / den, 0) of Python: the nearest integer, a tie to the even one
round_half_even(num, den) ==
    LET q == num \div den
        r == num % den
    IN  IF 2 * r < den THEN q
        ELSE IF 2 * r > den THEN q + 1
        ELSE IF q % 2 = 0 THEN q ELSE q + 1

\* the percentage cut to one decimal instead of rounded
percentage_of_truncated(total, total_expenses) ==
    IF total_expenses > 0 THEN (total * 1000) \div total_expenses ELSE 0

\* lines 1044-1049: round(total / total_expenses * 100, 1), kept in tenths
\* of a percent (400 is 40.0)
percentage_of(total, total_expenses) ==
    IF total_expenses > 0 THEN round_half_even(total * 1000, total_expenses)
    ELSE 0

\* result.sort(key=total, reverse=True): the groups by total, largest
\* first, groups of equal total in the order of their first row
RECURSIVE sort_by_total(_, _)
sort_by_total(groups, first_row) ==
    IF groups = {} THEN <<>>
    ELSE LET g == CHOOSE g \in groups :
                    \A h \in groups :
                        \/ h.total < g.total
                        \/ /\ h.total = g.total
                           /\ first_row[g.category] <= first_row[h.category]
         IN  <<g>> \o sort_by_total(groups \ {g}, first_row)

get_category_analysis(table, user_id, start_date, end_date, db) ==
    LET period == default_period(start_date, end_date)
        selected == {i \in 1..Len(table) :
                        /\ table[i].user_id = user_id
                        /\ table[i].transaction_type = "expense"
                        /\ paid_in_range(table[i], period.start, period.end)}
        names == {category_name(table[i]) : i \in selected}
        rows_of(name) == {i \in selected : category_name(table[i]) = name}
        total_expenses == sum_amounts(table, selected)
        groups == {[category |-> name,
                    total |-> sum_amounts(table, rows_of(name)),
                    count |-> Cardinality(rows_of(name)),
                    percentage |->
                        percentage_of(sum_amounts(table, rows_of(name)),
                                      total_expenses)] : name \in names}
        first_row == [name \in names |->
                         CHOOSE i \in rows_of(name) :
                             \A j \in rows_of(name) : i <= j]
    IN  IF db = "raise" THEN <<>> ELSE sort_by_total(groups, first_row)

\* date + timedelta(days=n)
RECURSIVE plus_days(_, _)
plus_days(dt, n) ==
    LET last == monthrange(dt.year, dt.month)
    IN  IF dt.day + n <= last THEN [dt EXCEPT !.day = dt.day + n]
        ELSE plus_days([year |-> dt.year + (dt.month \div 12),
                        month |-> (dt.month % 12) + 1, day |-> 1],
                       n - (last - dt.day) - 1)

\* date - timedelta(days=n)
RECURSIVE minus_days(_, _)
minus_days(dt, n) ==
    IF n < dt.day THEN [dt EXCEPT !.day = dt.day - n]
    ELSE LET py == IF dt.month = 1 THEN dt.year - 1 ELSE dt.year
             pm == IF dt.month = 1 THEN 12 ELSE dt.month - 1
         IN  minus_days([year |-> py, month |-> pm,
                         day |-> monthrange(py, pm)], n - dt.day)

\* .order("due_date", desc=False) over the rows S: earliest first, rows
\* without a due date last, rows of equal date in the order of the table
RECURSIVE order_by_due_date(_, _)
order_by_due_date(table, S) ==
    IF S = {} THEN <<>>
    ELSE LET key(i) == IF table[i].due_date = None THEN 99999999
                       ELSE iso_key(table[i].due_date)
             i == CHOOSE i \in S :
                     \A j \in S : \/ key(i) < key(j)
                                  \/ key(i) = key(j) /\ i <= j
         IN  <<i>> \o order_by_due_date(table, S \ {i})

\* one bucket of the pending commitments: the rows of the ordered list that
\* fall into it
bucket(table, ordered, members) ==
    LET items == SelectSeq(ordered, LAMBDA i : i \in members)
    IN  [total |-> sum_amounts(table, {items[k] : k \in 1..Len(items)}),
         count |-> Len(items),
         items |-> [k \in 1..Len(items) |->
                       [amount |-> table[items[k]].amount,
                        description |-> table[items[k]].description,
                        due_date |-> table[items[k]].due_date]]]

EmptyBucket == [total |-> 0, count |-> 0, items |-> <<>>]

get_pending_commitments(table, user_id, db) ==
    LET current_month_start == [today EXCEPT !.day = 1]
        next_month == plus_days([today EXCEPT !.day = 28], 4)
        next_month_start == [next_month EXCEPT !.day = 1]
        pending == {i \in 1..Len(table) :
                       /\ table[i].user_id = user_id
                       /\ table[i].transaction_type = "expense"
                       /\ table[i].paid_date = None}
        ordered == order_by_due_date(table, pending)
        in_this(row) ==
            /\ row.due_date # None
            /\ str_le(isoformat(current_month_start), row.due_date)
            /\ iso_key(row.due_date) < iso_key(isoformat(next_month_start))
        in_next(row) ==
            /\ row.due_date # None
            /\ ~in_this(row)
            /\ str_le(isoformat(next_month_start), row.due_date)
            /\ row.due_date[2] = next_month_start.month
        in_future(row) ==
            row.due_date # None /\ ~in_this(row) /\ ~in_next(row)
    IN  IF db = "raise"
        THEN [this_month |-> EmptyBucket, next_month |-> EmptyBucket,
              future |-> EmptyBucket]
        ELSE [this_month |->
                  bucket(table, ordered, {i \in pending : in_this(table[i])}),
              next_month |->
                  bucket(table, ordered, {i \in pending : in_next(table[i])}),
              future |->
                  bucket(table, ordered,
                         {i \in pending : in_future(table[i])})]

\* lines 1092-1116: one row per month_offset from months - 1 down to 0, the
\* month being that of the first day of the current month minus
\* month_offset * 30 days
get_monthly_trend(table, user_id, months, db) ==
    [k \in 1..months |->
        LET month_offset == months - k
            target_date == minus_days([today EXCEPT !.day = 1],
                                      month_offset * 30)
            first_day == date(target_date.year, target_date.month, 1)
            last_day == date(target_date.year, target_date.month,
                             monthrange(target_date.year, target_date.month))
            balance_data == calculate_user_balance(table, user_id,
                                isoformat(first_day), isoformat(last_day), db)
        IN  [month |-> <<target_date.year, target_date.month>>,
             income |-> balance_data.total_income,
             expenses |-> balance_data.total_expenses,
             balance |-> balance_data.balance]]

\* the value a read command returns, kept in result
returns(op, args, view, db) ==
    /\ result' = [op |-> op, success |-> TRUE, args |-> args, db |-> db,
                  view |-> view,
                  transactions_before |-> transactions,
                  invoices_before |-> invoices]
    /\ store_raised' = (store_raised \/ db = "raise")
    /\ UNCHANGED <<today, credit_cards, transactions, invoices, clock,
                   posted, cycle, requests>>

\* agent.check_balance
check_balance(user_id, start_date, end_date, db) ==
    returns("check_balance", [start_date |-> start_date,
                              end_date |-> end_date],
            calculate_user_balance(transactions, user_id, start_date,
                                   end_date, db), db)

\* agent.analyze_spending_by_category
analyze_spending_by_category(user_id, start_date, end_date, db) ==
    returns("analyze_spending_by_category",
            [start_date |-> start_date, end_date |-> end_date],
            get_category_analysis(transactions, user_id, start_date,
                                  end_date, db), db)

\* agent.check_pending_commitments
check_pending_commitments(user_id, db) ==
    returns("check_pending_commitments", <<>>,
            get_pending_commitments(transactions, user_id, db), db)

\* the balance of the dynamic query
native_balance(user_id, date_range, is_paid, db) ==
    returns("native_balance", [date_range |-> date_range,
                               is_paid |-> is_paid],
            execute_supabase_native_query(transactions, user_id, date_range,
                                          is_paid, db), db)

\* agent.show_monthly_trend: months defaults to 6 below 1, is capped at 12
show_monthly_trend(user_id, months, db) ==
    LET asked == IF months = None \/ months[1] < 1 THEN 6
                 ELSE IF months[1] > 12 THEN 12 ELSE months[1]
    IN  returns("show_monthly_trend", [months |-> months, asked |-> asked],
                get_monthly_trend(transactions, user_id, asked, db), db)

\* the ledger of one user on 28 January 2025 and the views read from it:
\* expenses in two categories (one of amount zero), an income, a pending
\* expense series, a pending income, settlements dated in December
InitViews ==
    /\ today = [year |-> 2025, month |-> 1, day |-> 28]
    /\ credit_cards = CardTable(1, 10)
    /\ transactions = <<>>
    /\ invoices = <<>>
    /\ clock = 0
    /\ result = NoResult
    /\ posted = <<>>
    /\ store_raised = FALSE
    /\ cycle = NoCycle
    /\ requests = <<>>

ViewExpenses == {<<0, "cat1">>, <<50, "cat1">>, <<75, "cat2">>}

SpendNow ==
    \E e \in ViewExpenses :
        save_expense_transaction("u1", e[1], "luz", e[2], "pix", NoCard,
                                 FALSE, None, None, "ok", "ok", "ok")

SpendMonthly ==
    save_expense_transaction("u1", 50, "aluguel", "cat1", "pix", NoCard,
                             TRUE, <<10>>, <<2>>, "ok", "ok", "ok")

Earn ==
    \E recurrence \in BOOLEAN :
        save_income_transaction("u1", 50, "salario", "cat1", "pix",
                                recurrence,
                                IF recurrence THEN <<10>> ELSE None,
                                IF recurrence THEN <<1>> ELSE None, "ok")

SettleInDecember ==
    \E id \in 1..Len(transactions) :
        mark_transaction_as_paid(id, "u1", <<2024, 12, 31>>, "ok")

\* the bounds a caller gives to a range: none, or 1 December and 31 January
RangeBounds == {<<None, None>>, <<<<2024, 12, 1>>, None>>,
                <<None, <<2025, 1, 31>>>>,
                <<<<2024, 12, 1>>, <<2025, 1, 31>>>>}

CheckBalance ==
    \E range \in RangeBounds, db \in DbOutcomes :
        check_balance("u1", range[1], range[2], db)

AnalyzeSpendingByCategory ==
    \E range \in RangeBounds, db \in DbOutcomes :
        analyze_spending_by_category("u1", range[1], range[2], db)

CheckPendingCommitments ==
    \E db \in DbOutcomes : check_pending_commitments("u1", db)

NativeRanges == {<<None, None>>, <<<<2024, 12, 1>>, <<2025, 1, 31>>>>}

NativeBalance ==
    \E range \in NativeRanges, is_paid \in {None, <<TRUE>>, <<FALSE>>} :
        native_balance("u1", [start_date |-> range[1],
                              end_date |-> range[2]], is_paid, "ok")

NextViews ==
    \/ SpendNow
    \/ SpendMonthly
    \/ Earn
    \/ SettleInDecember
    \/ CheckBalance
    \/ AnalyzeSpendingByCategory
    \/ CheckPendingCommitments
    \/ NativeBalance

SpecViews == InitViews /\ [][NextViews]_vars

\* the monthly trend on every day of Years, over a ledger of at most MaxOps
\* entries paid on the day they are registered
InitTrend ==
    /\ today \in AllDates
    /\ credit_cards = CardTable(1, 10)
    /\ transactions = <<>>
    /\ invoices = <<>>
    /\ clock = 0
    /\ result = NoResult
    /\ posted = <<>>
    /\ store_raised = FALSE
    /\ cycle = NoCycle
    /\ requests = <<>>

TrendExpense ==
    /\ transactions = <<>>
    /\ save_expense_transaction("u1", 50, "luz", "cat1", "pix", NoCard,
                                FALSE, None, None, "ok", "ok", "ok")

TrendIncome ==
    /\ transactions = <<>>
    /\ save_income_transaction("u1", 75, "salario", "cat1", "pix", FALSE,
                               None, None, "ok")

TrendMonths == {None} \cup {<<k>> : k \in 0..13}

ShowMonthlyTrend ==
    \E months \in TrendMonths : show_monthly_trend("u1", months, "ok")

NextTrend == TrendExpense \/ TrendIncome \/ ShowMonthlyTrend

SpecTrend == InitTrend /\ [][NextTrend]_vars

----------------------------------------------------------------------------
(* Pending commitments of one user: expenses that wait for payment, with   *)
(* and without a due date, and a rent declared for fourteen months.        *)

\* the rows save_expense_transaction stores for a rent of 50 declared on the
\* day start for 14 months, due on day 10 (lines 288-344, recurring_months
\* = 14)
YearLongSeries(start) ==
    transactions_to_insert(
        [user_id |-> "u1", amount |-> abs(50),
         description |-> [text |-> "aluguel", suffix |-> None],
         category_id |-> "cat1", payment_method |-> "pix",
         transaction_type |-> "expense", recurrence |-> TRUE,
         credit_card_id |-> NoCard,
         due_date |-> isoformat(date_or_last_day(start.year, start.month,
                                                 10)),
         paid_date |-> None, created_at |-> 0],
        start, 10, months_to_create(<<14>>), "expense")

PendingDays == {[year |-> 2025, month |-> 1, day |-> 28],
                [year |-> 2024, month |-> 12, day |-> 15]}

\* the ledger is empty or holds the rent declared today
InitPending ==
    /\ today \in PendingDays
    /\ credit_cards = CardTable(1, 10)
    /\ transactions \in {<<>>, YearLongSeries(today)}
    /\ invoices = <<>>
    /\ clock = 0
    /\ result = NoResult
    /\ posted = <<>>
    /\ store_raised = FALSE
    /\ cycle = NoCycle
    /\ requests = <<>>

\* a credit-card expense that names no card, or a payment method outside
\* the known ones: stored pending, without a due date
OweWithoutDueDate ==
    \E payment_method \in {"cartao_credito", "boleto"} :
        save_expense_transaction("u1", 50, "mercado", "cat1", payment_method,
                                 NoCard, FALSE, None, None, "ok", "ok", "ok")

OweOnCard ==
    save_expense_transaction("u1", 75, "loja", "cat2", "cartao_credito",
                             "c1", FALSE, None, None, "ok", "ok", "ok")

OweMonthly ==
    \E user_id \in {"u1", "u2"}, due_day \in {10, 31},
       months \in 1..MaxMonths :
        save_expense_transaction(user_id, 50, "aluguel", "cat1", "pix",
                                 NoCard, TRUE, <<due_day>>, <<months>>,
                                 "ok", "ok", "ok")

PayOnTheSpot ==
    save_expense_transaction("u1", 50, "luz", "cat1", "pix", NoCard, FALSE,
                             None, None, "ok", "ok", "ok")

PayAnExpense ==
    \E id \in 1..Len(transactions) :
        mark_expense_as_paid(id, "u1", None, "ok")

ReadPendingCommitments ==
    \E db \in DbOutcomes : check_pending_commitments("u1", db)

NextPending ==
    \/ OweWithoutDueDate
    \/ OweOnCard
    \/ OweMonthly
    \/ PayOnTheSpot
    \/ PayAnExpense
    \/ ReadPendingCommitments

SpecPending == InitPending /\ [][NextPending]_vars

----------------------------------------------------------------------------
(* create_or_update_invoice under concurrent requests.  Every call of the  *)
(* store is one step; the steps of different requests interleave.  A       *)
(* request is the record of its arguments, its position pc in the function *)
(* ("select", "update", "card", "insert", "done"), what its select         *)
(* returned (existing) and the success it reports.                         *)

MaxRequests == 3

BillMonths == {2, 3}

\* a caller enters create_or_update_invoice (line 98)
ReceivePosting(user_id, credit_card_id, bill_month, bill_year, amount) ==
    /\ Len(requests) < MaxRequests
    /\ requests' = Append(requests,
                          [user_id |-> user_id,
                           credit_card_id |-> credit_card_id,
                           month |-> bill_month, year |-> bill_year,
                           amount |-> amount, pc |-> "select",
                           existing |-> None, invoice_data |-> None,
                           success |-> FALSE])
    /\ UNCHANGED <<today, credit_cards, transactions, invoices, clock,
                   result, posted, store_raised, cycle>>

\* line 100: the select; its rows stay with the request
SelectExisting(r, db) ==
    LET req == requests[r]
        existing == existing_invoice(invoices, req.user_id,
                                     req.credit_card_id, req.month, req.year)
    IN  /\ req.pc = "select"
        /\ requests' =
             [requests EXCEPT ![r] =
                IF db = "raise" THEN [req EXCEPT !.pc = "done"]
                ELSE IF existing # {}
                THEN [req EXCEPT
                        !.pc = "update",
                        !.existing =
                            <<[id |-> first(existing),
                               total_amount |->
                                   invoices[first(existing)].total_amount]>>]
                ELSE [req EXCEPT !.pc = "card"]]
        /\ store_raised' = (store_raised \/ db = "raise")
        /\ UNCHANGED <<today, credit_cards, transactions, invoices, clock,
                       result, posted, cycle>>

\* the total sent to the store by an increment made inside the store
new_amount_in_store(inv, id, current_amount, amount) ==
    inv[id].total_amount + amount

\* lines 104-105: new_amount = current_amount + amount, the current amount
\* being the one the select returned
new_amount(inv, id, current_amount, amount) == current_amount + amount

\* lines 107-111: the update of the row the select returned
UpdateTotal(r, db) ==
    LET req == requests[r]
        row == req.existing[1]
    IN  /\ req.pc = "update"
        /\ invoices' =
             IF db = "raise" THEN invoices
             ELSE [invoices EXCEPT ![row.id].total_amount =
                      new_amount(invoices, row.id, row.total_amount,
                                 req.amount)]
        /\ requests' = [requests EXCEPT ![r].pc = "done",
                                        ![r].success = (db = "ok")]
        /\ store_raised' = (store_raised \/ db = "raise")
        /\ UNCHANGED <<today, credit_cards, transactions, clock, result,
                       posted, cycle>>

\* lines 114-132: the card is read and the new row prepared
ReadCard(r, db) ==
    LET req == requests[r]
        card_details == get_credit_card_details(credit_cards, req.user_id,
                                                req.credit_card_id, db)
        due_date == invoice_due_date(req.year, req.month,
                                     card_details[1].due_day)
    IN  /\ req.pc = "card"
        /\ requests' =
             [requests EXCEPT ![r] =
                IF card_details = None THEN [req EXCEPT !.pc = "done"]
                ELSE IF due_date = ValueError THEN [req EXCEPT !.pc = "done"]
                ELSE [req EXCEPT
                        !.pc = "insert",
                        !.invoice_data =
                            <<[user_id |-> req.user_id,
                               credit_card_id |-> req.credit_card_id,
                               total_amount |-> req.amount,
                               month |-> req.month,
                               year |-> req.year,
                               due_date |-> isoformat(due_date),
                               close_day |-> card_details[1].close_day,
                               is_paid |-> FALSE,
                               paid_date |-> None]>>]]
        /\ store_raised' = (store_raised \/ db = "raise")
        /\ UNCHANGED <<today, credit_cards, transactions, invoices, clock,
                       result, posted, cycle>>

\* lines 134-139: the insert of the new row
InsertInvoice(r, db) ==
    LET req == requests[r]
    IN  /\ req.pc = "insert"
        /\ invoices' = IF db = "raise" THEN invoices
                       ELSE Append(invoices, req.invoice_data[1])
        /\ requests' = [requests EXCEPT ![r].pc = "done",
                                        ![r].success = (db = "ok")]
        /\ store_raised' = (store_raised \/ db = "raise")
        /\ UNCHANGED <<today, credit_cards, transactions, clock, result,
                       posted, cycle>>

InitConcurrent ==
    /\ today = [year |-> 2025, month |-> 1, day |-> 28]
    /\ credit_cards = CardTable(1, 10)
    /\ transactions = <<>>
    /\ invoices = <<>>
    /\ clock = 0
    /\ result = NoResult
    /\ posted = <<>>
    /\ store_raised = FALSE
    /\ cycle = NoCycle
    /\ requests = <<>>

NextConcurrent ==
    \/ \E m \in BillMonths, a \in Amounts :
           ReceivePosting("u1", "c1", m, 2025, a)
    \/ \E r \in 1..Len(requests), db \in DbOutcomes : SelectExisting(r, db)
    \/ \E r \in 1..Len(requests), db \in DbOutcomes : UpdateTotal(r, db)
    \/ \E r \in 1..Len(requests), db \in DbOutcomes : ReadCard(r, db)
    \/ \E r \in 1..Len(requests), db \in DbOutcomes : InsertInvoice(r, db)

SpecConcurrent == InitConcurrent /\ [][NextConcurrent]_vars

----------------------------------------------------------------------------
(* Edits in a ledger of two users whose entries carry the same words *)

InitEdit ==
    /\ today = [year |-> 2025, month |-> 1, day |-> 28]
    /\ credit_cards = CardTable(1, 10)
    /\ transactions = <<>>
    /\ invoices = <<>>
    /\ clock = 0
    /\ result = NoResult
    /\ posted = <<>>
    /\ store_raised = FALSE
    /\ cycle = NoCycle
    /\ requests = <<>>

Users == {"u1", "u2"}

\* the category of a user named "Casa"
casa(user_id) == IF user_id = "u1" THEN "cat1" ELSE "cat3"

SpendLuz ==
    \E user_id \in Users :
        save_expense_transaction(user_id, 50, "luz", casa(user_id), "pix",
                                 NoCard, FALSE, None, None, "ok", "ok", "ok")

SpendLuzOnCard ==
    save_expense_transaction("u1", 50, "luz", "cat1", "cartao_credito",
                             "c1", FALSE, None, None, "ok", "ok", "ok")

OweLuzMonthly ==
    \E user_id \in Users :
        save_expense_transaction(user_id, 50, "luz", casa(user_id), "pix",
                                 NoCard, TRUE, <<10>>, <<2>>,
                                 "ok", "ok", "ok")

\* the field changes of an edit: <<payment method, category name, amount,
\* description>>
EditFields ==
    {<<None, None, None, None>>,
     <<<<"cartao_credito">>, None, None, None>>,
     <<None, <<"Casa">>, None, None>>,
     <<None, <<"Lazer">>, None, None>>,
     <<None, None, <<75>>, None>>,
     <<None, None, None, <<"agua">>>>,
     <<<<"dinheiro">>, <<"Casa">>, <<75>>, <<"agua">>>>}

EditLuz ==
    \E user_id \in Users, new \in EditFields, db \in DbOutcomes :
        edit_transaction(user_id, "luz", new[1], new[2], new[3], new[4], db)

NextEdit == SpendLuz \/ SpendLuzOnCard \/ OweLuzMonthly \/ EditLuz

SpecEdit == InitEdit /\ [][NextEdit]_vars

----------------------------------------------------------------------------
(* One creation on every day of Years: the dates an entry is given *)

InitCreate ==
    /\ today \in AllDates
    /\ credit_cards \in {CardTable(1, 10), CardTable(25, 31),
                         CardTable(31, 5)}
    /\ transactions = <<>>
    /\ invoices = <<>>
    /\ clock = 0
    /\ result = NoResult
    /\ posted = <<>>
    /\ store_raised = FALSE
    /\ cycle = NoCycle
    /\ requests = <<>>

\* the payment methods the chat tool names (agent.py, register_expense)
PaymentMethods == {"pix", "dinheiro", "cartao_debito", "cartao_credito"}

BuyOnce ==
    /\ transactions = <<>>
    /\ \E payment_method \in PaymentMethods, card \in {"c1", "c9"} :
          save_expense_transaction("u1", 50, "luz", "cat1", payment_method,
                                   IF payment_method = "cartao_credito"
                                   THEN card ELSE NoCard,
                                   FALSE, None, None, "ok", "ok", "ok")

EarnOnce ==
    /\ transactions = <<>>
    /\ \E payment_method \in {"pix", "dinheiro"} :
          save_income_transaction("u1", 75, "salario", "cat1",
                                  payment_method, FALSE, None, None, "ok")

NextCreate == BuyOnce \/ EarnOnce

SpecCreate == InitCreate /\ [][NextCreate]_vars

----------------------------------------------------------------------------
(* Properties of the cycle calculator (checked under SpecCycle) *)

\* C1: a purchase on or before the closing day is assigned to the invoice
\* closing in its own month, a later one to the following month (December
\* rolls over to January of the next year), and the due date lies in the
\* month and year of the closing date.
C1_CycleAssignment ==
    cycle # NoCycle =>
        LET d == cycle.purchase_date
            early == d.day <= cycle.close_day
            m == IF early THEN d.month
                 ELSE IF d.month = 12 THEN 1 ELSE d.month + 1
            y == IF ~early /\ d.month = 12 THEN d.year + 1 ELSE d.year
        IN  /\ cycle.close_date.month = m
            /\ cycle.close_date.year = y
            /\ cycle.due_date.month = cycle.close_date.month
            /\ cycle.due_date.year = cycle.close_date.year

\* a December purchase after the closing day, rolled over to January
C1_Witness ==
    /\ cycle # NoCycle
    /\ cycle.purchase_date.month = 12
    /\ cycle.purchase_date.day > cycle.close_day
    /\ cycle.close_date.month = 1
    /\ cycle.close_date.year = cycle.purchase_date.year + 1

\* C2: the returned due date and closing date are valid calendar dates
\* whose day is the configured day, or the last day of the target month when
\* the month is shorter than the configured day.
C2_ValidClampedDates ==
    cycle # NoCycle =>
        LET du == cycle.due_date
            cl == cycle.close_date
            Length(y, m) == IF m \in {1, 3, 5, 7, 8, 10, 12} THEN 31
                            ELSE IF m # 2 THEN 30
                            ELSE IF y % 4 = 0 THEN 29 ELSE 28
        IN  /\ du.month \in 1..12 /\ cl.month \in 1..12
            /\ du.day >= 1 /\ du.day <= Length(du.year, du.month)
            /\ cl.day >= 1 /\ cl.day <= Length(cl.year, cl.month)
            /\ du.day = IF cycle.due_day <= Length(du.year, du.month)
                        THEN cycle.due_day ELSE Length(du.year, du.month)
            /\ cl.day = IF cycle.close_day <= Length(cl.year, cl.month)
                        THEN cycle.close_day ELSE Length(cl.year, cl.month)

\* day 31 clamped to 29 February of the leap year
C2_Witness ==
    /\ cycle # NoCycle
    /\ cycle.due_day = 31
    /\ cycle.close_day = 30
    /\ cycle.due_date = [year |-> 2024, month |-> 2, day |-> 29]
    /\ cycle.close_date = [year |-> 2024, month |-> 2, day |-> 29]

C3_Case ==
    /\ cycle # NoCycle
    /\ cycle.close_day = 1
    /\ cycle.due_day = 10
    /\ cycle.purchase_date = [year |-> 2025, month |-> 1, day |-> 5]

\* C3 as stated: with closing day 1 and due day 10, the purchase of
\* 2025-01-05 belongs to the invoice of January 2025, due 2025-01-10.
C3_Original ==
    C3_Case =>
        /\ cycle.close_date.month = 1 /\ cycle.close_date.year = 2025
        /\ cycle.due_date = [year |-> 2025, month |-> 1, day |-> 10]

\* C3 amended: with closing day 1 and due day 10, the purchase of
\* 2025-01-05 is made after the closing day and belongs to the invoice of
\* February 2025, closing 2025-02-01 and due 2025-02-10.
C3_Amended ==
    C3_Case =>
        /\ cycle.close_date = [year |-> 2025, month |-> 2, day |-> 1]
        /\ cycle.due_date = [year |-> 2025, month |-> 2, day |-> 10]

C3_Witness == C3_Case /\ cycle.due_date.month = 2

----------------------------------------------------------------------------
(* Properties of the aggregator (checked under SpecInvoice) *)

SameCycle(p, q) ==
    /\ p.user_id = q.user_id /\ p.credit_card_id = q.credit_card_id
    /\ p.month = q.month /\ p.year = q.year

\* C4: two postings of a and b, one after the other, to the same (card,
\* month, year) leave exactly one invoice of that cycle, and its
\* total_amount is a + b, whichever is posted first.
C4_Original ==
    (/\ Len(posted) = 2
     /\ posted[1].db = "ok" /\ posted[2].db = "ok"
     /\ SameCycle(posted[1], posted[2]))
    => LET rows == existing_invoice(invoices, posted[1].user_id,
                                    posted[1].credit_card_id,
                                    posted[1].month, posted[1].year)
       IN  /\ Cardinality(rows) = 1
           /\ \A i \in rows : invoices[i].total_amount =
                                   posted[1].amount + posted[2].amount

\* C6: posting to an absent (card, month, year) creates the invoice with
\* total_amount = amount, is_paid = false and a due date in that month on
\* the card's due day (the month's last day when the month is shorter);
\* posting to a present one sets total_amount to the previous total plus
\* the amount.
C6_Original ==
    (result.op = "post" /\ result.db = "ok")
    => LET before == existing_invoice(result.invoices_before, result.user_id,
                                      result.credit_card_id, result.month,
                                      result.year)
           after == existing_invoice(invoices, result.user_id,
                                     result.credit_card_id, result.month,
                                     result.year)
           due_day == credit_cards[result.credit_card_id].due_day
           last == monthrange(result.year, result.month)
       IN  IF before = {}
           THEN /\ Cardinality(after) = 1
                /\ \A i \in after :
                      /\ invoices[i].total_amount = result.amount
                      /\ invoices[i].is_paid = FALSE
                      /\ invoices[i].due_date =
                            <<result.year, result.month,
                              IF due_day <= last THEN due_day ELSE last>>
           ELSE /\ after = before
                /\ \A i \in after :
                      invoices[i].total_amount =
                        result.invoices_before[i].total_amount + result.amount

\* the cycles whose month has the card's due day
DueDayExists(month, year) ==
    credit_cards["c1"].due_day <= monthrange(year, month)

\* C4 and C6 hold of the postings to months that have the card's due day
C4_WhereDueDayExists ==
    (Len(posted) = 2 /\ DueDayExists(posted[1].month, posted[1].year))
    => C4_Original

C6_WhereDueDayExists ==
    (result.op = "post" /\ DueDayExists(result.month, result.year))
    => C6_Original

----------------------------------------------------------------------------
(* Properties of the recurring expansion (checked under SpecRecur) *)

\* the last command was a recurring declaration
RecurringDeclared ==
    /\ result.op \in {"save_expense", "save_income"}
    /\ result.recurrence
    /\ result.due_day # None

\* the month count the declaration asked for
AskedMonths ==
    IF result.recurring_months = None THEN 6 ELSE result.recurring_months[1]

\* the rows the last command added to the ledger
NewRows ==
    SubSeq(transactions, Len(result.transactions_before) + 1,
           Len(transactions))

\* the number of days of a month of the civil calendar, 1901..2099
CalendarLength(y, m) ==
    IF m \in {1, 3, 5, 7, 8, 10, 12} THEN 31
    ELSE IF m # 2 THEN 30
    ELSE IF y % 4 = 0 THEN 29 ELSE 28

\* months counted from year 0
MonthIndex(y, m) == 12 * y + (m - 1)

\* C7: a recurring declaration with month count m (6 when none is given)
\* that succeeds adds exactly m entries to the ledger, expense or income,
\* the k-th due in the k-th calendar month counted from the current one,
\* all with paid_date null whatever the payment method.
C7_ExactlyMConsecutiveMonths ==
    (RecurringDeclared /\ result.success) =>
        /\ Len(NewRows) = AskedMonths
        /\ \A k \in 1..Len(NewRows) :
              /\ NewRows[k].due_date # None
              /\ MonthIndex(NewRows[k].due_date[1], NewRows[k].due_date[2])
                    = MonthIndex(today.year, today.month) + (k - 1)
              /\ NewRows[k].paid_date = None
              /\ NewRows[k].transaction_type =
                    (IF result.op = "save_expense" THEN "expense"
                     ELSE "income")

\* the default of six months, declared in October on a credit card: the
\* series crosses into the next year
C7_Witness ==
    /\ RecurringDeclared /\ result.success
    /\ result.op = "save_expense"
    /\ result.recurring_months = None
    /\ result.payment_method = "cartao_credito"
    /\ today.month = 10
    /\ Len(NewRows) = 6
    /\ NewRows[6].due_date[1] = today.year + 1
    /\ NewRows[6].due_date[2] = 3

\* C8: each expanded entry is due on the requested day of its own target
\* month, or on the last day of that month when the month has no such day.
C8_DueDayClamped ==
    (RecurringDeclared /\ result.success) =>
        \A k \in 1..Len(NewRows) :
            LET due == NewRows[k].due_date
                t == MonthIndex(today.year, today.month) + (k - 1)
                last == CalendarLength(t \div 12, (t % 12) + 1)
            IN  /\ due[1] = t \div 12
                /\ due[2] = (t % 12) + 1
                /\ due[3] = IF result.due_day[1] <= last
                            THEN result.due_day[1] ELSE last

\* day 31 declared in January of the leap year: 29 February and 30 April
C8_Witness ==
    /\ RecurringDeclared /\ result.success
    /\ result.due_day = <<31>>
    /\ Len(NewRows) = 6
    /\ NewRows[1].due_date = <<2024, 1, 31>>
    /\ NewRows[2].due_date = <<2024, 2, 29>>
    /\ NewRows[4].due_date = <<2024, 4, 30>>

\* C9: a recurring credit-card expense posts each of its m entries to the
\* invoice of (card, due month, due year) of the entry: after the
\* declaration each of those invoices exists and has grown by the amount.
C9_Original ==
    (/\ RecurringDeclared /\ result.success
     /\ result.op = "save_expense"
     /\ result.payment_method = "cartao_credito"
     /\ result.credit_card_id \in DOMAIN credit_cards)
    => \A k \in 1..Len(NewRows) :
          LET due == NewRows[k].due_date
              before == existing_invoice(result.invoices_before,
                            result.user_id, result.credit_card_id,
                            due[2], due[1])
              after == existing_invoice(invoices, result.user_id,
                           result.credit_card_id, due[2], due[1])
          IN  /\ Cardinality(after) = 1
              /\ \A i \in after :
                    invoices[i].total_amount =
                      (IF before = {} THEN 0
                       ELSE result.invoices_before[first(before)].total_amount)
                      + result.amount

C11_Original ==
    (RecurringDeclared /\ result.success) =>
        /\ \A k \in 1..Len(NewRows) :
              NewRows[k].description.suffix
                = <<NewRows[k].due_date[2], NewRows[k].due_date[1]>>
        /\ \A j, k \in 1..Len(NewRows) :
              j # k => NewRows[j].description # NewRows[k].description

----------------------------------------------------------------------------
(* Properties of settlement and amounts (checked under SpecSettle) *)

SettleOps ==
    {"mark_transaction_as_paid", "mark_income_as_received",
     "mark_expense_as_paid"}

C13_Original ==
    (/\ result.op \in SettleOps
     /\ result.target \in 1..Len(result.transactions_before)
     /\ result.transactions_before[result.target].recurrence
     /\ result.transactions_before[result.target].paid_date # None)
    => transactions = result.transactions_before

\* C14: every stored amount is non-negative, whatever the sign of the
\* amounts given to the create and edit commands: a created entry holds the
\* magnitude of the amount given, and its kind is that of the command.
C14_AmountsNonNegative ==
    /\ \A i \in 1..Len(transactions) : transactions[i].amount >= 0
    /\ (result.op \in {"save_expense", "save_income"} /\ result.success) =>
          \A k \in 1..Len(NewRows) :
              /\ NewRows[k].amount \in {result.amount, 0 - result.amount}
              /\ NewRows[k].transaction_type =
                    (IF result.op = "save_expense" THEN "expense"
                     ELSE "income")

\* an income registered with the amount -50 and then edited: the ledger
\* holds a magnitude other than the one it was created with
C14_Witness ==
    /\ result.op = "edit" /\ result.success
    /\ \E i \in 1..Len(transactions) :
          /\ transactions[i].transaction_type = "income"
          /\ transactions[i].amount = 75
          /\ result.transactions_before[i].amount = 50
    /\ \E i \in 1..Len(transactions) :
          /\ transactions[i].transaction_type = "expense"
          /\ transactions[i].amount = 50

----------------------------------------------------------------------------
(* Properties of card creation (checked under SpecCards) *)

\* C15: a card whose closing_day or due_day is outside 1..31 is rejected on
\* every creation path, so every stored card has both days in 1..31 and a
\* card purchase never hands the calculator a day outside 1..31.
C15_Original ==
    /\ \A c \in DOMAIN credit_cards :
          /\ credit_cards[c].close_day \in Days
          /\ credit_cards[c].due_day \in Days
    /\ (/\ result.op = "save_expense"
        /\ result.payment_method = "cartao_credito"
        /\ result.credit_card_id \in DOMAIN credit_cards)
       => /\ credit_cards[result.credit_card_id].close_day \in Days
          /\ credit_cards[result.credit_card_id].due_day \in Days

----------------------------------------------------------------------------
(* Properties of the read views (checked under SpecViews and SpecTrend) *)

\* the sum of the amounts of the rows S of the ledger
RECURSIVE Total(_)
Total(S) ==
    IF S = {} THEN 0
    ELSE LET i == CHOOSE i \in S : TRUE
         IN  transactions[i].amount + Total(S \ {i})

\* the settled entries of a kind whose paid_date lies in [start, end]
Settled(kind, start, end) ==
    {i \in 1..Len(transactions) :
        /\ transactions[i].transaction_type = kind
        /\ transactions[i].paid_date # None
        /\ iso_key(start) <= iso_key(transactions[i].paid_date)
        /\ iso_key(transactions[i].paid_date) <= iso_key(end)}

\* the pending entries of a kind
Pending(kind) ==
    {i \in 1..Len(transactions) :
        /\ transactions[i].transaction_type = kind
        /\ transactions[i].paid_date = None}

\* the sum of the field f of the rows of a returned list
RECURSIVE SumField(_, _)
SumField(list, f) ==
    IF list = <<>> THEN 0 ELSE Head(list)[f] + SumField(Tail(list), f)

\* C16: the balance view returns the sums and counts of the settled income
\* and expense of its range, their difference as balance, and besides them
\* the sums of pending income and pending expense, which are not part of
\* the balance; the balance of the dynamic query nets settled entries only.
C16_Original ==
    /\ (result.op = "check_balance" /\ result.db = "ok") =>
          LET v == result.view
              inc == Settled("income", v.period.start, v.period.end)
              exp == Settled("expense", v.period.start, v.period.end)
          IN  /\ v.total_income = Total(inc)
              /\ v.total_expenses = Total(exp)
              /\ v.balance = Total(inc) - Total(exp)
              /\ v.income_count = Cardinality(inc)
              /\ v.expense_count = Cardinality(exp)
              /\ {"pending_income", "pending_expenses"} \subseteq DOMAIN v
              /\ v.pending_income = Total(Pending("income"))
              /\ v.pending_expenses = Total(Pending("expense"))
    /\ (/\ result.op = "native_balance" /\ result.view # <<>>
        /\ result.args.is_paid = None
        /\ result.args.date_range.start_date = None
        /\ result.args.date_range.end_date = None) =>
          LET v == result.view[1]
              inc == {i \in 1..Len(transactions) :
                         /\ transactions[i].transaction_type = "income"
                         /\ transactions[i].paid_date # None}
              exp == {i \in 1..Len(transactions) :
                         /\ transactions[i].transaction_type = "expense"
                         /\ transactions[i].paid_date # None}
          IN  /\ v.total_income = Total(inc)
              /\ v.total_expenses = Total(exp)
              /\ v.balance = Total(inc) - Total(exp)

\* C17: a bound of the range the caller omits defaults to the first, or the
\* last, day of the current month, and a bound the caller gives is used as
\* given, in the balance and in the category summary.
C17_Original ==
    (/\ result.op \in {"check_balance", "analyze_spending_by_category"}
     /\ result.db = "ok") =>
        LET start == IF result.args.start_date # None
                     THEN result.args.start_date
                     ELSE <<today.year, today.month, 1>>
            end == IF result.args.end_date # None THEN result.args.end_date
                   ELSE <<today.year, today.month,
                          CalendarLength(today.year, today.month)>>
        IN  IF result.op = "check_balance"
            THEN /\ result.view.period = [start |-> start, end |-> end]
                 /\ result.view.total_income
                      = Total(Settled("income", start, end))
                 /\ result.view.total_expenses
                      = Total(Settled("expense", start, end))
            ELSE SumField(result.view, "total")
                      = Total(Settled("expense", start, end))

\* C18: a view over a range with no entry is the zeroed or empty structure:
\* the balance has income, expense, balance and counts 0, the category
\* summary is the empty list, the pending commitments are three buckets of
\* total 0, count 0 and no item; a store that fails gives the same.
C18_EmptyViews ==
    /\ (result.op = "check_balance"
        /\ (\/ result.db = "raise"
            \/ Settled("income", result.view.period.start,
                       result.view.period.end)
                 \cup Settled("expense", result.view.period.start,
                              result.view.period.end) = {}))
       => /\ result.view.total_income = 0
          /\ result.view.total_expenses = 0
          /\ result.view.balance = 0
          /\ result.view.income_count = 0
          /\ result.view.expense_count = 0
    /\ (result.op = "analyze_spending_by_category"
        /\ (\/ result.db = "raise"
            \/ Settled("expense",
                       default_period(result.args.start_date,
                                      result.args.end_date).start,
                       default_period(result.args.start_date,
                                      result.args.end_date).end) = {}))
       => result.view = <<>>
    /\ (result.op = "check_pending_commitments"
        /\ (result.db = "raise" \/ Pending("expense") = {}))
       => \A b \in {"this_month", "next_month", "future"} :
              /\ result.view[b].total = 0
              /\ result.view[b].count = 0
              /\ result.view[b].items = <<>>

\* the ledger holds an entry settled in December and a pending one, and the
\* balance of the current month, read from a store that answers, is all
\* zeros
C18_Witness ==
    /\ result.op = "check_balance" /\ result.db = "ok"
    /\ result.args = [start_date |-> None, end_date |-> None]
    /\ Len(transactions) = 2
    /\ transactions[1].paid_date = <<2024, 12, 31>>
    /\ transactions[2].paid_date = None
    /\ result.view.total_income = 0 /\ result.view.total_expenses = 0
    /\ result.view.income_count = 0 /\ result.view.expense_count = 0

\* the groups of a category summary: each percentage is the group's total
\* over the sum of the totals returned, to one decimal, and the groups come
\* in descending order of total
GroupsWellFormed(view) ==
    LET den == SumField(view, "total")
    IN  /\ \A k \in 1..Len(view) :
              2 * abs(view[k].percentage * den - 1000 * view[k].total) <= den
        /\ \A k \in 1..(Len(view) - 1) : view[k].total >= view[k + 1].total

\* the percentages of the groups add up to 100 within the rounding of each
SumsTo100(view) ==
    2 * abs(SumField(view, "percentage") - 1000) <= Len(view)

\* C19 as stated: for every non-empty category summary each percentage is
\* total over the sum of the returned totals, the percentages add up to 100
\* within rounding, and the groups are in descending order of total.
C19_Original ==
    (/\ result.op = "analyze_spending_by_category"
     /\ result.view # <<>>)
    => GroupsWellFormed(result.view) /\ SumsTo100(result.view)

\* C19 amended: the percentages add up to 100 within rounding when the sum
\* of the returned totals is positive; when it is zero (every expense of the
\* range has amount 0) every percentage is 0.
C19_Amended ==
    (/\ result.op = "analyze_spending_by_category"
     /\ result.view # <<>>)
    => /\ GroupsWellFormed(result.view)
       /\ IF SumField(result.view, "total") > 0
          THEN SumsTo100(result.view)
          ELSE \A k \in 1..Len(result.view) : result.view[k].percentage = 0

\* two groups of totals 100 and 75: 57.1 % and 42.9 %
C19_Witness ==
    /\ result.op = "analyze_spending_by_category"
    /\ Len(result.view) = 2
    /\ result.view[1].total = 100 /\ result.view[1].percentage = 571
    /\ result.view[2].total = 75 /\ result.view[2].percentage = 429

\* C20: for every today and every K in 1..12 the monthly trend has exactly
\* K rows, the k-th being the calendar month K - k months before the
\* current one, with that month's settled income and expense and their
\* difference as balance.
C20_Original ==
    result.op = "show_monthly_trend" =>
        LET K == result.args.asked
            v == result.view
        IN  /\ Len(v) = K
            /\ \A k \in 1..Len(v) :
                  LET y == v[k].month[1]
                      m == v[k].month[2]
                  IN  /\ MonthIndex(y, m)
                           = MonthIndex(today.year, today.month) - (K - k)
                      /\ v[k].income
                           = Total(Settled("income", <<y, m, 1>>,
                                           <<y, m, CalendarLength(y, m)>>))
                      /\ v[k].expenses
                           = Total(Settled("expense", <<y, m, 1>>,
                                           <<y, m, CalendarLength(y, m)>>))
                      /\ v[k].balance = v[k].income - v[k].expenses

----------------------------------------------------------------------------
(* Properties of the pending commitments (checked under SpecPending) *)

\* the pending expenses of a user
PendingExpensesOf(user_id) ==
    {i \in Pending("expense") : transactions[i].user_id = user_id}

\* the due dates listed in a bucket
DueDatesIn(b) == {b.items[k].due_date : k \in 1..Len(b.items)}

\* C21: the three buckets of the pending commitments are disjoint and
\* together hold every pending expense of the user, those stored without a
\* due date included: the three counts add up to the number of the user's
\* expenses with paid_date null.
C21_Original ==
    (result.op = "check_pending_commitments" /\ result.db = "ok") =>
        LET v == result.view
        IN  /\ v.this_month.count + v.next_month.count + v.future.count
                   = Cardinality(PendingExpensesOf("u1"))
            /\ DueDatesIn(v.this_month) \cap DueDatesIn(v.next_month) = {}
            /\ DueDatesIn(v.this_month) \cap DueDatesIn(v.future) = {}
            /\ DueDatesIn(v.next_month) \cap DueDatesIn(v.future) = {}

\* the calendar month after that of the day dt
MonthAfter(dt) ==
    [year |-> dt.year + (dt.month \div 12), month |-> (dt.month % 12) + 1]

\* C22: a pending expense is in next_month exactly when its due date lies
\* in the calendar month that follows today's (of the right year, January
\* after December), and in this_month exactly when it lies in today's
\* month; an entry due in the same month one year later is not in
\* next_month.
C22_Original ==
    (result.op = "check_pending_commitments" /\ result.db = "ok") =>
        \A i \in PendingExpensesOf("u1") :
            LET due == transactions[i].due_date
                v == result.view
            IN  due # None =>
                  /\ due \in DueDatesIn(v.next_month)
                         <=> /\ due[1] = MonthAfter(today).year
                             /\ due[2] = MonthAfter(today).month
                  /\ due \in DueDatesIn(v.this_month)
                         <=> /\ due[1] = today.year
                             /\ due[2] = today.month

----------------------------------------------------------------------------
(* Properties of concurrent postings (checked under SpecConcurrent) *)

\* C23: two requests that post to the same existing statement at the same
\* time can interleave their read and write steps so that the total ends as
\* the old total plus one of the two amounts.  Every update writes the
\* total its own select returned plus its own amount, whatever the row
\* holds by then; the lost update is the state of the witness.
C23_WritesWhatItRead ==
    [][\A r \in 1..Len(requests) :
          (/\ requests[r].pc = "update"
           /\ requests'[r].pc = "done"
           /\ requests'[r].success)
          => invoices'[requests[r].existing[1].id].total_amount
                 = requests[r].existing[1].total_amount
                       + requests[r].amount]_vars

\* two requests read the same total of the same statement, both updated it
\* and reported success, and the total is the one read plus one amount
C23_Witness ==
    \E r1, r2 \in 1..Len(requests) :
        /\ r1 # r2
        /\ requests[r1].pc = "done" /\ requests[r1].success
        /\ requests[r2].pc = "done" /\ requests[r2].success
        /\ requests[r1].existing # None
        /\ requests[r2].existing # None
        /\ requests[r1].existing = requests[r2].existing
        /\ invoices[requests[r1].existing[1].id].total_amount
               = requests[r1].existing[1].total_amount + requests[r2].amount

\* C24: in every reachable state, the states after concurrent first
\* postings to one cycle included, there is at most one statement row for a
\* (user, card, month, year).
C24_Original ==
    \A i, j \in 1..Len(invoices) :
        (/\ invoices[i].user_id = invoices[j].user_id
         /\ invoices[i].credit_card_id = invoices[j].credit_card_id
         /\ invoices[i].month = invoices[j].month
         /\ invoices[i].year = invoices[j].year) => i = j

----------------------------------------------------------------------------
(* Properties of the ledger and its invoices (checked under Spec) *)

RECURSIVE SumAmounts(_, _)
SumAmounts(table, S) ==
    IF S = {} THEN 0
    ELSE LET i == CHOOSE j \in S : TRUE
         IN  table[i].amount + SumAmounts(table, S \ {i})

\* the credit-card rows of the ledger due in the cycle of an invoice
RowsOfInvoice(inv) ==
    {i \in 1..Len(transactions) :
        /\ transactions[i].user_id = inv.user_id
        /\ transactions[i].payment_method = "cartao_credito"
        /\ transactions[i].credit_card_id = inv.credit_card_id
        /\ transactions[i].due_date # None
        /\ transactions[i].due_date[1] = inv.year
        /\ transactions[i].due_date[2] = inv.month}

\* C5: after any sequence of credit-card expense creations and edits, every
\* invoice's total_amount is the sum of the stored amounts of the
\* credit-card transactions of its card that are due in its month and year
\* (stated for the runs in which no call of the store raised and nothing
\* recurring was declared).
C5_Original ==
    (/\ ~store_raised
     /\ \A i \in 1..Len(transactions) : ~transactions[i].recurrence)
    => \A n \in 1..Len(invoices) :
          invoices[n].total_amount =
              SumAmounts(transactions, RowsOfInvoice(invoices[n]))

\* the statement rows of the cycle in which the ledger row is due
StatementsOf(inv, row) ==
    existing_invoice(inv, row.user_id, row.credit_card_id, row.due_date[2],
                     row.due_date[1])

\* the total the statements of a key add up to
RECURSIVE StatementTotal(_, _)
StatementTotal(inv, S) ==
    IF S = {} THEN 0
    ELSE LET n == CHOOSE k \in S : TRUE
         IN  inv[n].total_amount + StatementTotal(inv, S \ {n})

\* the last command stored one expense bought on a known credit card
StoredCardExpense ==
    /\ result.op = "save_expense"
    /\ result.posts
    /\ Len(transactions) = Len(result.transactions_before) + 1

\* C25: at the end of every request each credit-card expense of the ledger
\* is reflected in its statement: when save_expense_transaction has stored
\* a non-recurring credit-card expense, the statement of its card and due
\* month exists and its total has grown by the amount, also when the
\* statement step reported a failure.
C25_Original ==
    StoredCardExpense =>
        LET row == transactions[Len(transactions)]
        IN  /\ StatementsOf(invoices, row) # {}
            /\ StatementTotal(invoices, StatementsOf(invoices, row))
                   = StatementTotal(result.invoices_before,
                                    StatementsOf(result.invoices_before, row))
                         + row.amount

----------------------------------------------------------------------------
(* Properties of the edit (checked under SpecEdit) *)

EditableFields == {"amount", "description", "category_id", "payment_method"}

\* C26: an edit changes only the fields it names (amount, description,
\* category, payment method) of exactly one entry, owned by the user who
\* asks; the paid_date and due_date of that entry, every other entry and
\* every entry of another user stay as they were.
C26_EditFrame ==
    result.op = "edit" =>
        LET before == result.transactions_before
            i == result.target
        IN  /\ Len(transactions) = Len(before)
            /\ \A j \in 1..Len(before) :
                  (j # i \/ before[j].user_id # result.user_id)
                  => transactions[j] = before[j]
            /\ result.success =>
                  /\ i \in 1..Len(before)
                  /\ before[i].user_id = result.user_id
                  /\ \A f \in DOMAIN before[i] \ EditableFields :
                        transactions[i][f] = before[i][f]
                  /\ result.new.payment_method = None =>
                        transactions[i].payment_method
                            = before[i].payment_method
                  /\ result.new.category_name = None =>
                        transactions[i].category_id = before[i].category_id
                  /\ result.new.amount = None =>
                        transactions[i].amount = before[i].amount
                  /\ result.new.description = None =>
                        transactions[i].description = before[i].description

\* an edit changed an entry of its user that has a due date, in a ledger
\* whose latest entry with the same words belongs to another user
C26_Witness ==
    /\ result.op = "edit" /\ result.success
    /\ transactions # result.transactions_before
    /\ transactions[result.target].due_date # None
    /\ \E j \in 1..Len(transactions) :
          /\ transactions[j].user_id # result.user_id
          /\ transactions[j].description.text = "luz"
          /\ transactions[j].created_at
                 > transactions[result.target].created_at

\* C27: after any sequence of expense creations and edits, edits of the
\* payment method to or from credit card included, an entry carries a
\* credit-card reference exactly when its payment method is credit card;
\* a creation with payment method credit card and no card is rejected and
\* writes no row.
C27_Original ==
    /\ \A i \in 1..Len(transactions) :
          transactions[i].transaction_type = "expense" =>
              (transactions[i].credit_card_id # NoCard
                   <=> transactions[i].payment_method = "cartao_credito")
    /\ (/\ result.op = "save_expense"
        /\ result.payment_method = "cartao_credito"
        /\ result.credit_card_id = NoCard)
       => (~result.success /\ transactions = result.transactions_before)

\* the last command was a credit-card expense whose statement step ran and
\* whose ledger insert stored nothing
CardExpenseNotStored ==
    /\ result.op = "save_expense"
    /\ result.posts
    /\ transactions = result.transactions_before

\* C28: if the ledger insert of a non-recurring credit-card expense fails,
\* the creation reports failure and leaves every statement as it was: no
\* statement total contains the amount of a transaction that was not
\* stored.
C28_Original ==
    CardExpenseNotStored =>
        (~result.success /\ invoices = result.invoices_before)

----------------------------------------------------------------------------
(* Properties of the dates given at creation (checked under SpecCreate) *)

\* the last command stored one entry that is not recurring
StoredOnce(op) ==
    /\ result.op = op
    /\ ~result.recurrence
    /\ Len(transactions) = Len(result.transactions_before) + 1

\* C29: an expense that is not recurring and is paid by pix, cash or debit
\* card is created settled, its paid_date and due_date the day of creation;
\* one bought on a known credit card is created pending with the due date
\* of its card cycle; an income that is not recurring is created settled on
\* the day of creation.
C29_CreationDates ==
    LET row == transactions[Len(transactions)]
        card == credit_cards[result.credit_card_id]
    IN  /\ (/\ StoredOnce("save_expense")
            /\ result.payment_method \in {"pix", "dinheiro",
                                          "cartao_debito"})
           => /\ row.paid_date = <<today.year, today.month, today.day>>
              /\ row.due_date = row.paid_date
        /\ (/\ StoredOnce("save_expense")
            /\ result.payment_method = "cartao_credito"
            /\ result.credit_card_id \in DOMAIN credit_cards)
           => /\ row.paid_date = None
              /\ row.due_date =
                    isoformat(calculate_credit_card_due_date(
                                  today, card.close_day,
                                  card.due_day).due_date)
        /\ StoredOnce("save_income")
           => /\ row.paid_date = <<today.year, today.month, today.day>>
              /\ row.due_date = row.paid_date

\* an expense bought on a known credit card was stored pending, due in a
\* month after that of the purchase
C29_Witness ==
    /\ StoredOnce("save_expense")
    /\ result.payment_method = "cartao_credito"
    /\ result.credit_card_id \in DOMAIN credit_cards
    /\ transactions[1].paid_date = None
    /\ transactions[1].due_date[2] # today.month

----------------------------------------------------------------------------
(* The due date against the purchase date (checked under SpecCycle) *)

\* C30: for every card with closing day and due day in 1..31 and every
\* purchase date, the due date calculate_credit_card_due_date returns is
\* not earlier than the purchase date: no purchase is assigned a statement
\* that was already due when it was made.
C30_Original ==
    cycle # NoCycle =>
        iso_key(isoformat(cycle.purchase_date))
            <= iso_key(isoformat(cycle.due_date))

====
